---- MODULE Spec2Model ----
(***************************************************************************)
(* Short.ly: link creation (CreateShortUrl), resolution (ResolveUrl) and   *)
(* the ShortenerService facade over a MongoDB record store and a Redis     *)
(* cache.  Every await of the JavaScript code is one step of a caller, so  *)
(* callers interleave exactly where the event loop lets them.              *)
(*                                                                         *)
(* Strings are sequences of one-character strings; the empty sequence is   *)
(* the falsy value (null, undefined or "").  An optional value (a Date or  *)
(* a document that may be null) is a set with at most one element.         *)
(***************************************************************************)
EXTENDS Integers, Sequences, FiniteSets, TLC

VARIABLES
  store,      \* the documents of the Url collection (UrlModel)
  cache,      \* the keys held by Redis, each with its value and expiry instant
  now,        \* the wall clock (new Date()), in ticks
  urlLength,  \* CreateShortUrl.urlLength, the generator's target length
  call,       \* per caller: the position and the locals of the call in flight, or its result
  storeUp,    \* whether MongoDB answers
  cacheMode,  \* "up" | "cmdfail" (commands reject) | "connfail" (connect() throws)
  lastCode,   \* history: per normalized URL, the code the last createLink returned
  warm,       \* history: per code, what the last resolve that missed wrote, and until when
  clicks,     \* the Analytics collection: the code of each ClickEvent, in order of arrival
  recording,  \* the recordClick calls in flight, each with the code it is for
  hist,       \* history: per code, the Link as the last deactivateUrl found it, and
              \* whether activateUrl has answered since
  redis       \* RedisClient: this.client, this.isConnected, and the clients created

vars == <<store, cache, now, urlLength, call, storeUp, cacheMode, lastCode, warm,
          clicks, recording, hist, redis>>

---------------------------------------------------------------------------
\* Bounds of the model.
NumProcs == 2
MaxTime == 2
MaxLinks == 2
MaxUrlLength == 8
\* config.redis.ttl, counted in clock ticks.
CacheTtl == 2
\* The TTL GetUrlAnalytics caches with (an hour against the default day), in ticks.
AnalyticsTtl == 1
\* The ClickEvents and recordings the model follows.
MaxClicks == 2

\* The clients the model lets createClient make.
MaxClients == 3

\* The ClickEvents an event log may hold before the model starts to follow it.
SeedClicks == 100
\* The ClickEvents the model follows on top of a seeded event log.
MaxLateClicks == 1

\* The longest event log the referrers view is tried on from the start.
MaxSeed == 3

\* Instants past the last tick are not told apart.
Horizon == MaxTime + 1

Deadline(ttl) == IF now + ttl > Horizon THEN Horizon ELSE now + ttl

\* Program constants.
maxAttempts == 5
DefaultUrlLength == 7
AliasMinLength == 3
AliasMaxLength == 50
DefaultLimit == 100
DefaultSkip == 0
LargeDataset == 100

Procs == 1..NumProcs

---------------------------------------------------------------------------
\* Strings.
Rep(ch, n) == [i \in 1..n |-> ch]

S_http == <<"h", "t", "t", "p", ":", "/", "/">>

S_https == <<"h", "t", "t", "p", "s", ":", "/", "/">>

startsWith(s, prefix) ==
  /\ Len(s) >= Len(prefix)
  /\ SubSeq(s, 1, Len(prefix)) = prefix

endsWith(s, ch) == Len(s) > 0 /\ s[Len(s)] = ch

Lower ==
  {"a", "b", "c", "d", "e", "f", "g", "h", "i", "j", "k", "l", "m",
   "n", "o", "p", "q", "r", "s", "t", "u", "v", "w", "x", "y", "z"}

Upper ==
  {"A", "B", "C", "D", "E", "F", "G", "H", "I", "J", "K", "L", "M",
   "N", "O", "P", "Q", "R", "S", "T", "U", "V", "W", "X", "Y", "Z"}

Digits == {"0", "1", "2", "3", "4", "5", "6", "7", "8", "9"}

\* The characters /^[a-zA-Z0-9-_]+$/ accepts.
AliasChars == Lower \cup Upper \cup Digits \cup {"-", "_"}

\* nanoid draws from A-Za-z0-9_-; the model draws strings of one repeated letter.
NanoChars == {"a", "b"}

nanoid(len) == {Rep(ch, len) : ch \in NanoChars}

\* CreateShortUrl._normalizeUrl
NormalizeUrl(url) ==
  LET withScheme == IF ~startsWith(url, S_http) /\ ~startsWith(url, S_https)
                    THEN S_https \o url
                    ELSE url
  IN  IF endsWith(withScheme, "/")
      THEN SubSeq(withScheme, 1, Len(withScheme) - 1)
      ELSE withScheme

RECURSIVE SkipSlashes(_)
SkipSlashes(s) == IF s # <<>> /\ Head(s) = "/" THEN SkipSlashes(Tail(s)) ELSE s

RECURSIVE HostOf(_)
HostOf(s) == IF s = <<>> \/ Head(s) = "/" THEN <<>> ELSE <<Head(s)>> \o HostOf(Tail(s))

\* new URL(x) for an http(s) string: the slashes after the scheme are skipped
\* and the host that follows must be non-empty and hold no space.
UrlParses(url) ==
  LET rest == IF startsWith(url, S_https) THEN SubSeq(url, 7, Len(url))
              ELSE IF startsWith(url, S_http) THEN SubSeq(url, 6, Len(url))
              ELSE <<>>
      host == HostOf(SkipSlashes(rest))
  IN  host # <<>> /\ \A i \in 1..Len(host) : host[i] # " "

IsValidCustomAlias_unbounded(alias) ==
  /\ alias # <<>>
  /\ \A i \in 1..Len(alias) : alias[i] \in AliasChars
  /\ Len(alias) >= AliasMinLength

\* CreateShortUrl._isValidCustomAlias
IsValidCustomAlias(alias) ==
  /\ alias # <<>>
  /\ \A i \in 1..Len(alias) : alias[i] \in AliasChars
  /\ Len(alias) >= AliasMinLength
  /\ Len(alias) <= AliasMaxLength

---------------------------------------------------------------------------
\* JavaScript values and objects, as far as getAnalytics' options use them: an
\* object is the sequence of its <<name, value>> properties in insertion order.
Undefined == [t |-> "undefined", n |-> 0, s |-> ""]

Null == [t |-> "null", n |-> 0, s |-> ""]

Num(n) == [t |-> "number", n |-> n, s |-> ""]

Str(s) == [t |-> "string", n |-> 0, s |-> s]

Falsy(v) ==
  \/ v.t \in {"undefined", "null"}
  \/ v.t = "number" /\ v.n = 0
  \/ v.t = "string" /\ v.s = ""

\* obj[name]
Prop(obj, name) ==
  LET at == {i \in 1..Len(obj) : obj[i][1] = name}
  IN  IF at = {} THEN Undefined ELSE obj[CHOOSE i \in at : \A j \in at : j <= i][2]

\* v || d
OrElse(v, d) == IF Falsy(v) THEN d ELSE v

\* The text JSON.stringify gives for a value.
JsonValue(v) ==
  IF v.t = "number" THEN <<ToString(v.n)>>
  ELSE IF v.t = "string" THEN <<"\"", v.s, "\"">>
  ELSE <<"null">>

RECURSIVE JsonMembers(_)
JsonMembers(obj) ==
  IF obj = <<>> THEN <<>>
  ELSE IF Head(obj)[2].t = "undefined" THEN JsonMembers(Tail(obj))
  ELSE LET rest == JsonMembers(Tail(obj))
       IN  <<"\"", Head(obj)[1], "\"", ":">> \o JsonValue(Head(obj)[2])
             \o (IF rest = <<>> THEN <<>> ELSE <<",">> \o rest)

\* JSON.stringify of an object: its properties in insertion order, those whose
\* value is undefined left out.
JsonStringify(obj) == <<"{">> \o JsonMembers(obj) \o <<"}">>

QueryOptions_asGiven(options) == options

\* GetUrlAnalytics.execute: the options with the defaults filled in.
QueryOptions(options) ==
  << <<"from", OrElse(Prop(options, "from"), Null)>>,
     <<"to", OrElse(Prop(options, "to"), Null)>>,
     <<"limit", OrElse(Prop(options, "limit"), Num(DefaultLimit))>>,
     <<"skip", OrElse(Prop(options, "skip"), Num(DefaultSkip))>>,
     <<"interval", OrElse(Prop(options, "interval"), Str("day"))>> >>

---------------------------------------------------------------------------
\* Inputs.  Each specification hands its callers one of these records: what the
\* requests carry (metas: whether a resolve comes with request data; acodes,
\* views and options: what getAnalytics is asked about) and how the
\* use case was built (analytics: whether ResolveUrl was given an
\* analyticsService; ShortenerService gives it none).
Off == [isActive |-> {FALSE}, expiresAt |-> {}, shortCode |-> {}]

On_unbounded == [isActive |-> {TRUE}, expiresAt |-> {{}}, shortCode |-> {}]

On == [isActive |-> {TRUE}, expiresAt |-> {}, shortCode |-> {}]

\* updateData: each field is present (a one-element set) or absent.
PatchInputs ==
  { Off,
    [isActive |-> {TRUE}, expiresAt |-> {{}}, shortCode |-> {}],
    [isActive |-> {}, expiresAt |-> {{0}}, shortCode |-> {Rep("b", DefaultUrlLength)}] }

\* createLink alone: URLs with no, one and two trailing slashes, and aliases at
\* and around the length limits and with characters in and out of the class.
CreateInputs ==
  [urls    |-> { <<"a">>, <<"a", "/">>, <<"a", "/", "/">>, S_http \o <<"b", "/", "/">>,
                 S_https },
   aliases |-> { <<>>, <<"x", "x">>, <<"x", "x", "x">>, Rep("x", AliasMaxLength),
                 Rep("x", AliasMaxLength + 1), <<"A", "-", "9", "_">>,
                 <<"x", " ", "x">>, <<"x", ".", "x">>, <<"x", "x", "/">> },
   codes   |-> {},
   exps    |-> { {} },
   patches |-> {},
   metas   |-> {},
   acodes  |-> {},
   analytics |-> FALSE,
   clicks  |-> MaxClicks]

\* A lone caller: two URLs in several spellings, one that does not parse,
\* aliases that are fresh, taken, shaped like a generated code, or malformed.
SeqInputs ==
  [urls    |-> { <<"a">>, S_https \o <<"a", "/">>, S_http \o <<"b">>, S_https },
   aliases |-> { <<>>, Rep("x", 3), Rep("a", DefaultUrlLength), Rep("x", 2) },
   codes   |-> { <<>>, Rep("x", 3) } \cup nanoid(DefaultUrlLength),
   exps    |-> { {}, {0} },
   patches |-> PatchInputs,
   metas   |-> { TRUE },
   referrers |-> { Undefined },
   acodes  |-> { Rep("a", DefaultUrlLength) },
   analytics |-> FALSE,
   clicks  |-> MaxClicks]

\* Racing callers: one URL in two spellings, an alias shaped like a generated
\* code, and an update that tries to rename the code.
RaceInputs ==
  [urls    |-> { <<"a">>, S_https \o <<"a", "/">> },
   aliases |-> { <<>>, Rep("a", DefaultUrlLength) },
   codes   |-> nanoid(DefaultUrlLength),
   exps    |-> { {} },
   patches |-> { [Off EXCEPT !.shortCode = {Rep("b", DefaultUrlLength)}] },
   metas   |-> { TRUE },
   referrers |-> { Undefined },
   acodes  |-> { Rep("a", DefaultUrlLength) },
   analytics |-> FALSE,
   clicks  |-> MaxClicks]

\* A lone caller of a ResolveUrl that was given an analyticsService.
ClickInputs ==
  [urls    |-> { <<"a">> },
   aliases |-> { <<>>, Rep("a", DefaultUrlLength) },
   codes   |-> nanoid(DefaultUrlLength),
   exps    |-> { {}, {0} },
   patches |-> { Off },
   metas   |-> { TRUE, FALSE },
   referrers |-> { Undefined },
   acodes  |-> { <<>>, Rep("a", DefaultUrlLength) },
   views   |-> { "summary" },
   options |-> { <<>> },
   analytics |-> TRUE,
   clicks  |-> MaxClicks]

\* Two URLs that may both ask for the one alias, which is also the code that
\* is resolved and deleted.
ReuseInputs ==
  [urls    |-> { <<"a">>, S_http \o <<"b">> },
   aliases |-> { <<>>, Rep("x", AliasMinLength) },
   codes   |-> { Rep("x", AliasMinLength) },
   exps    |-> { {} },
   patches |-> {},
   metas   |-> { FALSE },
   referrers |-> { Undefined },
   acodes  |-> {},
   views   |-> {},
   options |-> {},
   analytics |-> FALSE,
   clicks  |-> MaxClicks]

\* Resolves that come without a referrer, with an empty one and with a site's,
\* and getAnalytics asked for the referrers.
ReferrerInputs ==
  [urls    |-> { <<"a">> },
   aliases |-> { <<>>, Rep("a", DefaultUrlLength) },
   codes   |-> { Rep("a", DefaultUrlLength) },
   exps    |-> { {} },
   patches |-> {},
   metas   |-> { TRUE },
   referrers |-> { Undefined, Str(""), Str("g") },
   acodes  |-> { Rep("a", DefaultUrlLength) },
   views   |-> { "referrers" },
   options |-> { <<>> },
   analytics |-> TRUE,
   clicks  |-> MaxClicks]

\* Links with and without an expiry, taken out of service and put back.
ToggleInputs ==
  [urls    |-> { <<"a">>, S_http \o <<"b">> },
   aliases |-> { <<>>, Rep("a", DefaultUrlLength), Rep("x", 3) },
   codes   |-> { Rep("a", DefaultUrlLength), Rep("x", 3) },
   exps    |-> { {}, {1} },
   patches |-> {},
   metas   |-> { FALSE },
   referrers |-> { Undefined },
   acodes  |-> {},
   analytics |-> FALSE,
   clicks  |-> MaxClicks]

\* The wrapper's callers: one key, one value.
WrapperInputs ==
  [urls    |-> { <<"a">> },
   aliases |-> {},
   codes   |-> { Rep("a", DefaultUrlLength) },
   exps    |-> {},
   patches |-> {},
   metas   |-> { FALSE },
   referrers |-> { Undefined },
   acodes  |-> {},
   analytics |-> FALSE,
   clicks  |-> MaxClicks]

\* Resolves that are recorded, summaries read, and the analytics of the code
\* deleted.
CountInputs ==
  [urls    |-> { <<"a">> },
   aliases |-> { <<>>, Rep("a", DefaultUrlLength) },
   codes   |-> { Rep("a", DefaultUrlLength) },
   exps    |-> { {} },
   patches |-> {},
   metas   |-> { TRUE },
   referrers |-> { Undefined },
   acodes  |-> { Rep("a", DefaultUrlLength) },
   views   |-> { "summary" },
   options |-> { <<>> },
   analytics |-> TRUE,
   clicks  |-> MaxClicks]

\* getAnalytics asked for a summary, for the click list and for a view that
\* does not exist, with options that are absent, spelled out as the defaults in
\* two orders, falsy, and a limit above the default.
AnalyticsInputs ==
  [urls    |-> { <<"a">> },
   aliases |-> { <<>>, Rep("a", DefaultUrlLength) },
   codes   |-> { Rep("a", DefaultUrlLength) },
   exps    |-> { {}, {0} },
   patches |-> { Off },
   metas   |-> { TRUE },
   referrers |-> { Undefined },
   acodes  |-> { Rep("a", DefaultUrlLength) },
   views   |-> { "summary", "clicks", "heatmap" },
   options |-> { <<>>,
                 << <<"limit", Num(DefaultLimit)>>, <<"skip", Num(DefaultSkip)>>,
                    <<"interval", Str("day")>>, <<"from", Null>>, <<"to", Null>> >>,
                 << <<"to", Null>>, <<"interval", Str("day")>>, <<"skip", Num(DefaultSkip)>>,
                    <<"limit", Num(DefaultLimit)>> >>,
                 << <<"limit", Num(0)>>, <<"interval", Str("")>> >>,
                 << <<"limit", Num(2 * DefaultLimit)>> >> },
   analytics |-> TRUE,
   clicks  |-> MaxLateClicks]

\* A lone caller over a store and a cache that fail; the clock stands still.
FaultInputs ==
  [urls    |-> { <<"a">>, S_http \o <<"b">> },
   aliases |-> { <<>>, Rep("x", 3) },
   codes   |-> { Rep("x", 3), Rep("a", DefaultUrlLength) },
   exps    |-> { {} },
   patches |-> { Off },
   metas   |-> { TRUE },
   referrers |-> { Undefined },
   acodes  |-> { Rep("a", DefaultUrlLength) },
   views   |-> { "summary" },
   options |-> { <<>> },
   analytics |-> FALSE,
   clicks  |-> MaxClicks]

---------------------------------------------------------------------------
\* The record store (MongoUrlRepository over UrlModel).
Maybe(S) == IF S = {} THEN { {} } ELSE { {r} : r \in S }

The(S) == CHOOSE r \in S : TRUE

findByShortCode(shortCode) == {r \in store : r.shortCode = shortCode}

findByOriginalUrl_none(originalUrl) == {}

findByOriginalUrl_active(originalUrl) ==
  {r \in store : r.originalUrl = originalUrl /\ r.isActive}

findByOriginalUrl_live(originalUrl) ==
  {r \in store : /\ r.originalUrl = originalUrl
                 /\ r.isActive
                 /\ \A t \in r.expiresAt : now <= t}

findByOriginalUrl(originalUrl) == {r \in store : r.originalUrl = originalUrl}

shortCodeExists_active(shortCode) ==
  \E r \in store : r.shortCode = shortCode /\ r.isActive

shortCodeExists(shortCode) == \E r \in store : r.shortCode = shortCode

customAliasExists_no(alias) == FALSE

customAliasExists(alias) == \E r \in store : r.customAlias = alias

DuplicateKey_none(doc) == FALSE

\* The unique index on shortCode: save() rejects a second document with the code.
DuplicateKey(doc) == \E r \in store : r.shortCode = doc.shortCode

Rejects_swallowed == FALSE

\* A repository method's query rejects; its catch block logs and rethrows.
Rejects == ~storeUp

\* Url.toObject() as UrlModel stores it.
NewDoc(c, expiresAt) ==
  [originalUrl |-> c.url, shortCode |-> c.code, customAlias |-> c.alias,
   isActive |-> TRUE, expiresAt |-> expiresAt, totalClicks |-> 0]

StripShortCode_keep(patch) == patch

\* ShortenerService.updateUrl removes shortCode from the update data.
StripShortCode(patch) == [patch EXCEPT !.shortCode = {}]

\* findOneAndUpdate's effect on the matched document.
ApplyPatch(r, patch) ==
  [r EXCEPT !.isActive = IF patch.isActive = {} THEN @ ELSE The(patch.isActive),
            !.expiresAt = IF patch.expiresAt = {} THEN @ ELSE The(patch.expiresAt),
            !.shortCode = IF patch.shortCode = {} THEN @ ELSE The(patch.shortCode)]

IsExpired_never(r) == FALSE

\* ResolveUrl.execute: expiresAt && new Date() > new Date(expiresAt)
IsExpired(r) == \E t \in r.expiresAt : now > t

---------------------------------------------------------------------------
\* The cache (RedisCacheRepository over RedisClient).
UrlKey(shortCode) == [ns |-> "url", id |-> shortCode]

InvalidationKey_resolution(shortCode) == [ns |-> "resolution", id |-> shortCode]

\* GetUrlAnalytics._createCacheKey, for the one view and option set the model asks for.
AnalyticsKey(shortCode, view, options) ==
  [ns |-> "analytics", id |-> shortCode, view |-> view, options |-> JsonStringify(options)]

\* The key the service's invalidation deletes.
InvalidationKey(shortCode) == UrlKey(shortCode)

CacheGet_miss(key) == <<>>

\* RedisClient.get: the value, or the falsy value on a miss or an error.
CacheGet(key) ==
  LET hit == {e \in cache : e.key = key /\ e.exp > now}
  IN  IF cacheMode = "up" /\ hit # {} THEN The(hit).value ELSE <<>>

\* RedisClient.set with EX ttl: the cache afterwards.
CacheSet(key, value, ttl) ==
  IF cacheMode = "up"
  THEN {e \in cache : e.key # key} \cup {[key |-> key, value |-> value, exp |-> Deadline(ttl)]}
  ELSE cache

CacheDelete_keep(key) == cache

\* RedisClient.delete: the cache afterwards.
CacheDelete(key) ==
  IF cacheMode = "up" THEN {e \in cache : e.key # key} ELSE cache

ResolveCacheWrite_skip(shortCode, originalUrl) == cache

Escapes_uncaught(caught) == cacheMode = "connfail"

\* RedisClient runs connect() outside its try block: a failing connect() reaches
\* the caller, unless the caller wrapped the cache call in a try/catch of its own.
Escapes(caught) == cacheMode = "connfail" /\ ~caught

\* ResolveUrl._cacheUrl: set with the client's default TTL.
ResolveCacheWrite(shortCode, originalUrl) ==
  CacheSet(UrlKey(shortCode), originalUrl, CacheTtl)

\* CreateShortUrl._cacheUrl: set with config.redis.ttl.
CreateCacheWrite(shortCode, longUrl) ==
  CacheSet(UrlKey(shortCode), longUrl, CacheTtl)

---------------------------------------------------------------------------
\* Callers.
Fresh ==
  [pc |-> "idle", op |-> "none", code |-> <<>>, url |-> <<>>, alias |-> <<>>,
   attempts |-> 0, draws |-> 0, drawn |-> <<>>, out |-> "none", res |-> <<>>,
   rd |-> FALSE, via |-> "none", meta |-> FALSE, referrer |-> Undefined,
   options |-> <<>>, query |-> <<>>,
   key |-> <<>>, conn |-> 0]

\* What a finished call hands to its caller: the outcome (out), the value (res),
\* the path taken (via) and whether the store was read (rd).
Done(c, out, res, via) ==
  [Fresh EXCEPT !.pc = "done", !.op = c.op, !.code = c.code, !.url = c.url,
                !.alias = c.alias, !.meta = c.meta, !.out = out, !.res = res, !.via = via, !.rd = c.rd,
                !.draws = c.draws, !.drawn = c.drawn, !.key = c.key,
                !.options = c.options]

\* The call goes on to its next await.
Continue(p, c) == call' = [call EXCEPT ![p] = c]

\* The call returns res.
Returns(p, c, res, via) == call' = [call EXCEPT ![p] = Done(c, "ok", res, via)]

\* The call throws.
Throws(p, c, err) == call' = [call EXCEPT ![p] = Done(c, err, <<>>, "error")]

Remember(url, code) ==
  lastCode' = {h \in lastCode : h.url # url} \cup {[url |-> url, code |-> code]}

\* The event log holds seed when the service is constructed.
InitWith(seed) ==
  /\ store = {}
  /\ cache = {}
  /\ now = 0
  /\ urlLength = DefaultUrlLength
  /\ call = [p \in Procs |-> Fresh]
  /\ storeUp = TRUE
  /\ cacheMode = "up"
  /\ lastCode = {}
  /\ warm = {}
  /\ clicks = seed
  /\ recording = <<>>
  /\ hist = {}
  /\ redis = [client |-> 0, isConnected |-> FALSE, state |-> <<>>]

Init == InitWith(<<>>)

\* The ClickEvents recorded since the service was constructed.
Recorded == IF Len(clicks) >= SeedClicks THEN Len(clicks) - SeedClicks ELSE Len(clicks)

---------------------------------------------------------------------------
\* createLink: CreateShortUrl.execute, one action per await.

\* Normalize, look the URL up, and on a miss validate the alias format.
Create_findByOriginalUrl(p, in) ==
  /\ call[p].pc = "idle"
  /\ \E raw \in in.urls, customAlias \in in.aliases :
       LET c == [Fresh EXCEPT !.op = "create", !.url = NormalizeUrl(raw),
                              !.alias = customAlias]
       IN  IF Rejects
           THEN Throws(p, c, "StoreError") /\ UNCHANGED lastCode
           ELSE \E existingUrl \in Maybe(findByOriginalUrl(c.url)) :
                  IF existingUrl # {}
                  THEN /\ Returns(p, c, The(existingUrl).shortCode, "existing")
                       /\ Remember(c.url, The(existingUrl).shortCode)
                  ELSE /\ UNCHANGED lastCode
                       /\ IF customAlias # <<>>
                          THEN IF ~IsValidCustomAlias(customAlias)
                               THEN Throws(p, c, "InvalidAlias")
                               ELSE Continue(p, [c EXCEPT !.pc = "cr_alias"])
                          ELSE Continue(p, [c EXCEPT !.pc = "cr_gen"])
  /\ UNCHANGED <<clicks, recording, store, cache, now, urlLength, storeUp, cacheMode, warm,
                 hist, redis>>

\* The alias existence check, then the Url entity's validation.
Create_customAliasExists(p) ==
  /\ call[p].pc = "cr_alias"
  /\ LET c == call[p]
     IN  IF Rejects THEN Throws(p, c, "StoreError")
         ELSE IF customAliasExists(c.alias) THEN Throws(p, c, "AliasTaken")
         ELSE IF ~UrlParses(c.url) THEN Throws(p, c, "InvalidUrl")
         ELSE Continue(p, [c EXCEPT !.pc = "cr_persist", !.code = c.alias])
  /\ UNCHANGED <<clicks, recording, store, cache, now, urlLength, storeUp, cacheMode, lastCode, warm,
                 hist, redis>>

Escalates_late(attempts) == attempts > maxAttempts

\* The growth test of _generateUniqueShortCode, made after every draw.
Escalates(attempts) == attempts >= maxAttempts

\* One turn of _generateUniqueShortCode's loop: draw, check, count.  draws and
\* drawn record how many codes this call has drawn and the last of them.
Create_generateUniqueShortCode(p) ==
  /\ call[p].pc = "cr_gen"
  /\ ~(Escalates(call[p].attempts + 1) /\ urlLength >= MaxUrlLength)
  /\ \E shortCode \in nanoid(urlLength) :
       LET attempts == call[p].attempts + 1
           grow == Escalates(attempts)
           c == [call[p] EXCEPT !.draws = @ + 1, !.drawn = shortCode]
       IN  IF Rejects
           THEN Throws(p, call[p], "StoreError") /\ UNCHANGED urlLength
           ELSE /\ urlLength' = IF grow THEN urlLength + 1 ELSE urlLength
                /\ IF shortCodeExists(shortCode)
                   THEN Continue(p, [c EXCEPT !.attempts = IF grow THEN 0 ELSE attempts])
                   ELSE IF ~UrlParses(c.url)
                        THEN Throws(p, c, "InvalidUrl")
                        ELSE Continue(p, [c EXCEPT !.pc = "cr_persist", !.code = shortCode,
                                                   !.attempts = 0])
  /\ UNCHANGED <<clicks, recording, store, cache, now, storeUp, cacheMode, lastCode, warm,
                 hist, redis>>

Create_create_cacheFirst(p, in) ==
  /\ call[p].pc = "cr_persist"
  /\ Cardinality(store) < MaxLinks
  /\ cache' = CreateCacheWrite(call[p].code, call[p].url)
  /\ \E expiresAt \in in.exps :
       LET c == call[p]
           doc == NewDoc(c, expiresAt)
       IN  IF Rejects \/ DuplicateKey(doc)
           THEN Throws(p, c, "StoreError") /\ UNCHANGED store
           ELSE /\ store' = store \cup {doc}
                /\ Continue(p, [c EXCEPT !.pc = "cr_cache"])
  /\ UNCHANGED <<clicks, recording, now, urlLength, storeUp, cacheMode, lastCode, warm,
                 hist, redis>>

\* urlRepository.create.  expiresAt is read here for the first time, so the
\* input is drawn here.
Create_create(p, in) ==
  /\ call[p].pc = "cr_persist"
  /\ Cardinality(store) < MaxLinks
  /\ \E expiresAt \in in.exps :
       LET c == call[p]
           doc == NewDoc(c, expiresAt)
       IN  IF Rejects
           THEN Throws(p, c, "StoreError") /\ UNCHANGED store
           ELSE IF DuplicateKey(doc)
           THEN Throws(p, c, "DuplicateKey") /\ UNCHANGED store
           ELSE /\ store' = store \cup {doc}
                /\ Continue(p, [c EXCEPT !.pc = "cr_cache"])
  /\ UNCHANGED <<clicks, recording, cache, now, urlLength, storeUp, cacheMode, lastCode, warm,
                 hist, redis>>

\* _cacheUrl, whose errors are swallowed, and the return.
Create_cacheUrl(p) ==
  /\ call[p].pc = "cr_cache"
  /\ IF Escapes(TRUE)
     THEN Throws(p, call[p], "CacheError") /\ UNCHANGED <<cache, lastCode>>
     ELSE /\ cache' = CreateCacheWrite(call[p].code, call[p].url)
          /\ Returns(p, call[p], call[p].code, "created")
          /\ Remember(call[p].url, call[p].code)
  /\ UNCHANGED <<clicks, recording, store, now, urlLength, storeUp, cacheMode, warm,
                 hist, redis>>

---------------------------------------------------------------------------
\* resolve: ResolveUrl.execute, constructed as ShortenerService does (no analyticsService).

\* The recording a resolve's request data starts: the Analytics entity turns an
\* absent referrer into null; saved tells whether the ClickEvent is stored yet.
Event(c) ==
  [shortCode |-> c.code,
   referrer |-> IF c.referrer.t = "undefined" THEN Null ELSE c.referrer,
   saved |-> FALSE]

ResolveReturns_awaits(p, c, originalUrl, via, in) ==
  IF in.analytics /\ c.meta
  THEN /\ Continue(p, [c EXCEPT !.pc = "rs_record", !.res = originalUrl, !.via = via])
       /\ recording' = Append(recording, Event(c))
  ELSE /\ Returns(p, c, originalUrl, via)
       /\ recording' = recording

\* The end of ResolveUrl.execute: with an analyticsService and request data the
\* recording is started and not awaited; then the call returns.
ResolveReturns(p, c, originalUrl, via, in) ==
  /\ Returns(p, c, originalUrl, via)
  /\ recording' = IF in.analytics /\ c.meta THEN Append(recording, Event(c)) ELSE recording

Resolve_getFromCache(p, in) ==
  /\ call[p].pc = "idle"
  /\ \E shortCode \in in.codes, requestData \in in.metas :
     \E referrer \in IF requestData THEN in.referrers ELSE {Undefined} :
       LET c == [Fresh EXCEPT !.op = "resolve", !.code = shortCode, !.meta = requestData,
                              !.referrer = referrer]
           originalUrl == CacheGet(UrlKey(shortCode))
       IN  /\ (in.analytics /\ requestData) =>
                 /\ Recorded + Len(SelectSeq(recording, LAMBDA x : ~x.saved)) < in.clicks
                 /\ \A r \in store : r.totalClicks + Len(recording) < in.clicks
           /\ IF shortCode = <<>> THEN Throws(p, c, "Required") /\ UNCHANGED recording
              ELSE IF Escapes(TRUE) THEN Throws(p, c, "CacheError") /\ UNCHANGED recording
              ELSE IF originalUrl # <<>> THEN ResolveReturns(p, c, originalUrl, "hit", in)
              ELSE Continue(p, [c EXCEPT !.pc = "rs_store"]) /\ UNCHANGED recording
  /\ UNCHANGED <<clicks, store, cache, now, urlLength, storeUp, cacheMode, lastCode, warm,
                 hist, redis>>

Resolve_findByShortCode_recordsFirst(p) ==
  /\ call[p].pc = "rs_store"
  /\ recording' = IF call[p].meta THEN Append(recording, Event(call[p])) ELSE recording
  /\ LET c == [call[p] EXCEPT !.rd = TRUE]
     IN  IF Rejects THEN Throws(p, c, "StoreError")
         ELSE \E urlEntity \in Maybe(findByShortCode(c.code)) :
                IF urlEntity = {} THEN Throws(p, c, "NotFound")
                ELSE IF ~The(urlEntity).isActive THEN Throws(p, c, "Deactivated")
                ELSE IF IsExpired(The(urlEntity)) THEN Throws(p, c, "Expired")
                ELSE Continue(p, [c EXCEPT !.pc = "rs_set", !.res = The(urlEntity).originalUrl])
  /\ UNCHANGED <<clicks, store, cache, now, urlLength, storeUp, cacheMode, lastCode, warm,
                 hist, redis>>

Resolve_findByShortCode(p) ==
  /\ call[p].pc = "rs_store"
  /\ LET c == [call[p] EXCEPT !.rd = TRUE]
     IN  IF Rejects THEN Throws(p, c, "StoreError")
         ELSE \E urlEntity \in Maybe(findByShortCode(c.code)) :
                IF urlEntity = {} THEN Throws(p, c, "NotFound")
                ELSE IF ~The(urlEntity).isActive THEN Throws(p, c, "Deactivated")
                ELSE IF IsExpired(The(urlEntity)) THEN Throws(p, c, "Expired")
                ELSE Continue(p, [c EXCEPT !.pc = "rs_set", !.res = The(urlEntity).originalUrl])
  /\ UNCHANGED <<clicks, recording, store, cache, now, urlLength, storeUp, cacheMode, lastCode, warm,
                 hist, redis>>

Resolve_cacheUrl(p, in) ==
  /\ call[p].pc = "rs_set"
  /\ IF Escapes(TRUE)
     THEN Throws(p, call[p], "CacheError") /\ UNCHANGED <<cache, warm, recording>>
     ELSE /\ cache' = ResolveCacheWrite(call[p].code, call[p].res)
          /\ warm' = IF cacheMode = "up"
                     THEN {w \in warm : w.code # call[p].code}
                          \cup {[code |-> call[p].code, url |-> call[p].res,
                                 exp |-> Deadline(CacheTtl)]}
                     ELSE warm
          /\ ResolveReturns(p, call[p], call[p].res, "miss", in)
  /\ UNCHANGED <<clicks, store, now, urlLength, storeUp, cacheMode, lastCode,
                 hist, redis>>

---------------------------------------------------------------------------
\* ShortenerService.updateUrl / deactivateUrl / activateUrl / deleteUrl.

\* urlRepository.update(shortCode, data), and what the service does with its answer.
RepositoryUpdate(p, op, shortCode, data) ==
  LET c == [Fresh EXCEPT !.op = op, !.code = shortCode]
  IN  IF Rejects
      THEN Throws(p, c, "StoreError") /\ UNCHANGED <<store, warm>>
      ELSE \E url \in Maybe(findByShortCode(shortCode)) :
             IF url = {}
             THEN Returns(p, c, <<>>, "absent") /\ UNCHANGED <<store, warm>>
             ELSE /\ store' = (store \ url) \cup {ApplyPatch(The(url), data)}
                  /\ warm' = {w \in warm : w.code # shortCode}
                  /\ Continue(p, [c EXCEPT !.pc = "inval", !.res = shortCode,
                                           !.via = IF data.isActive = {FALSE}
                                                   THEN "off" ELSE "patched"])

updateUrl(p, in) ==
  /\ call[p].pc = "idle"
  /\ \E shortCode \in in.codes \ {<<>>}, updateData \in in.patches :
       RepositoryUpdate(p, "updateUrl", shortCode, StripShortCode(updateData))
  /\ UNCHANGED <<clicks, recording, cache, now, urlLength, storeUp, cacheMode, lastCode,
                 hist, redis>>

\* deactivateUrl and activateUrl leave the history to whoever observes them.
deactivateUrl(p, in) ==
  /\ call[p].pc = "idle"
  /\ \E shortCode \in in.codes \ {<<>>} :
       RepositoryUpdate(p, "deactivateUrl", shortCode,
                        Off)
  /\ UNCHANGED <<clicks, recording, cache, now, urlLength, storeUp, cacheMode, lastCode,
                 redis>>

activateUrl(p, in) ==
  /\ call[p].pc = "idle"
  /\ \E shortCode \in in.codes \ {<<>>} :
       RepositoryUpdate(p, "activateUrl", shortCode,
                        On)
  /\ UNCHANGED <<clicks, recording, cache, now, urlLength, storeUp, cacheMode, lastCode,
                 redis>>

\* deactivateUrl, observed: the history keeps the Link it found.
Deactivated(p, in) ==
  /\ deactivateUrl(p, in)
  /\ hist' = IF call'[p].pc = "inval"
             THEN {h \in hist : h.code # call'[p].code}
                  \cup {[code |-> call'[p].code, stage |-> "off", before |-> r] :
                          r \in findByShortCode(call'[p].code)}
             ELSE hist

\* activateUrl, observed: the history notes that it followed the deactivation.
Activated(p, in) ==
  /\ activateUrl(p, in)
  /\ hist' = IF call'[p].pc = "inval"
             THEN {IF h.code = call'[p].code THEN [h EXCEPT !.stage = "on"] ELSE h :
                     h \in hist}
             ELSE hist

\* urlRepository.delete: deleteOne, and deletedCount > 0.
deleteUrl(p, in) ==
  /\ call[p].pc = "idle"
  /\ \E shortCode \in in.codes \ {<<>>} :
       LET c == [Fresh EXCEPT !.op = "deleteUrl", !.code = shortCode]
       IN  IF Rejects
           THEN Throws(p, c, "StoreError") /\ UNCHANGED <<store, warm, lastCode>>
           ELSE \E url \in Maybe(findByShortCode(shortCode)) :
                  IF url = {}
                  THEN /\ Returns(p, c, <<>>, "absent")
                       /\ UNCHANGED <<store, warm, lastCode>>
                  ELSE /\ store' = store \ url
                       /\ warm' = {w \in warm : w.code # shortCode}
                       /\ lastCode' = {h \in lastCode : h.url # The(url).originalUrl}
                       /\ Continue(p, [c EXCEPT !.pc = "inval", !.res = shortCode,
                                                !.via = "deleted"])
  /\ UNCHANGED <<clicks, recording, cache, now, urlLength, storeUp, cacheMode,
                 hist, redis>>

\* cacheRepository.delete(`url:${shortCode}`) and the return.  RedisClient.delete
\* swallows a rejected command; a failing connect() is thrown to the caller.
invalidate(p) ==
  /\ call[p].pc = "inval"
  /\ IF Escapes(FALSE)
     THEN Throws(p, call[p], "CacheError") /\ UNCHANGED cache
     ELSE /\ cache' = CacheDelete(InvalidationKey(call[p].code))
          /\ Returns(p, call[p], call[p].res, call[p].via)
  /\ UNCHANGED <<clicks, recording, store, now, urlLength, storeUp, cacheMode, lastCode, warm,
                 hist, redis>>

---------------------------------------------------------------------------
\* getAnalytics: GetUrlAnalytics.execute, and the recordings resolve starts.

\* The ClickEvents of a code.
EventsOf(shortCode) == SelectSeq(clicks, LAMBDA e : e.shortCode = shortCode)

\* MongoAnalyticsRepository.getClickCount without date filters: the Link's
\* metadata.totalClicks, or the number of ClickEvents when no Link is found.
getClickCount(shortCode) ==
  LET url == findByShortCode(shortCode)
  IN  IF url # {} THEN The(url).totalClicks ELSE Len(EventsOf(shortCode))

\* What the analytics repository aggregates for a code: the summary's total.
Aggregate(shortCode) == <<"total", getClickCount(shortCode)>>

\* MongoAnalyticsRepository.getUrlAnalytics: the code's events, skip and limit
\* applied.
getUrlAnalytics(shortCode, queryOptions) ==
  LET events == EventsOf(shortCode)
      skip == Prop(queryOptions, "skip").n
      limit == Prop(queryOptions, "limit").n
      last == IF skip + limit < Len(events) THEN skip + limit ELSE Len(events)
  IN  <<"events">> \o SubSeq(events, skip + 1, last)

\* MongoAnalyticsRepository.getReferrerStats: $match, $group by referrer,
\* $project with $ifNull, $sort by count descending (any order among equal
\* counts), then item.referrer || 'Direct/None'.  The results it may give.
getReferrerStats(shortCode) ==
  LET events == EventsOf(shortCode)
      ids == {events[i].referrer : i \in 1..Len(events)}
      count(id) == Cardinality({i \in 1..Len(events) : events[i].referrer = id})
      projected(id) == IF id.t = "null" THEN Str("Direct/None") ELSE id
      sorted == {o \in [1..Cardinality(ids) -> ids] :
                   /\ \A i, j \in DOMAIN o : i # j => o[i] # o[j]
                   /\ \A i, j \in DOMAIN o : i < j => count(o[i]) >= count(o[j])}
      item(id) == [referrer |-> OrElse(projected(id), Str("Direct/None")).s,
                   count |-> count(id)]
  IN  {<<"referrers">> \o [i \in 1..Cardinality(ids) |-> item(o[i])] : o \in sorted}

\* The views the switch knows, as far as the model follows them.
KnownViews == {"summary", "clicks", "referrers"}

\* What the repository may answer for a view.
ViewData(c) ==
  IF c.key.view = "summary" THEN {Aggregate(c.code)}
  ELSE IF c.key.view = "clicks" THEN {getUrlAnalytics(c.code, c.query)}
  ELSE getReferrerStats(c.code)

\* analyticsData.length of a click list.
Length(analyticsData) == Len(analyticsData) - 1

Cacheable_always(view, analyticsData) == TRUE

\* GetUrlAnalytics.execute: view !== 'clicks' || analyticsData.length <= 100
Cacheable(view, analyticsData) ==
  view # "clicks" \/ Length(analyticsData) <= LargeDataset

\* The existence check, then the options' defaults and the cache key.
Analytics_shortCodeExists(p, in) ==
  /\ call[p].pc = "idle"
  /\ \E shortCode \in in.acodes, view \in in.views, options \in in.options :
       LET c == [Fresh EXCEPT !.op = "analytics", !.code = shortCode]
           queryOptions == QueryOptions(options)
           cacheKey == AnalyticsKey(shortCode, view, queryOptions)
       IN  IF shortCode = <<>> THEN Throws(p, c, "Required")
           ELSE IF Rejects THEN Throws(p, c, "StoreError")
           ELSE IF ~shortCodeExists(shortCode) THEN Throws(p, c, "NotFound")
           ELSE Continue(p, [c EXCEPT !.pc = "an_cache", !.options = options,
                                      !.query = queryOptions, !.key = cacheKey])
  /\ UNCHANGED <<clicks, recording, store, cache, now, urlLength, storeUp, cacheMode,
                 lastCode, warm,
                 hist, redis>>

Analytics_getFromCache_recompute(p) ==
  /\ call[p].pc = "an_cache"
  /\ Continue(p, [call[p] EXCEPT !.pc = "an_store"])
  /\ UNCHANGED <<clicks, recording, store, cache, now, urlLength, storeUp, cacheMode,
                 lastCode, warm,
                 hist, redis>>

Analytics_getFromCache(p) ==
  /\ call[p].pc = "an_cache"
  /\ LET c == call[p]
         cachedData == CacheGet(c.key)
     IN  IF Escapes(TRUE) THEN Throws(p, c, "CacheError")
         ELSE IF cachedData # <<>> THEN Returns(p, c, cachedData, "hit")
         ELSE Continue(p, [c EXCEPT !.pc = "an_store"])
  /\ UNCHANGED <<clicks, recording, store, cache, now, urlLength, storeUp, cacheMode,
                 lastCode, warm,
                 hist, redis>>

\* The switch on the view: the repository's queries, any of which may reject.
Analytics_switch(p) ==
  /\ call[p].pc = "an_store"
  /\ LET c == call[p]
         read == [c EXCEPT !.rd = TRUE]
     IN  IF c.key.view \notin KnownViews THEN Throws(p, c, "UnknownView")
         ELSE IF Rejects THEN Throws(p, read, "StoreError")
         ELSE \E analyticsData \in ViewData(c) :
                Continue(p, [read EXCEPT !.pc = "an_set", !.res = analyticsData])
  /\ UNCHANGED <<clicks, recording, store, cache, now, urlLength, storeUp, cacheMode,
                 lastCode, warm,
                 hist, redis>>

Analytics_cacheData(p) ==
  /\ call[p].pc = "an_set"
  /\ IF ~Cacheable(call[p].key.view, call[p].res)
     THEN Returns(p, call[p], call[p].res, "miss") /\ UNCHANGED cache
     ELSE IF Escapes(TRUE)
     THEN Throws(p, call[p], "CacheError") /\ UNCHANGED cache
     ELSE /\ cache' = CacheSet(call[p].key, call[p].res, AnalyticsTtl)
          /\ Returns(p, call[p], call[p].res, "miss")
  /\ UNCHANGED <<clicks, recording, store, now, urlLength, storeUp, cacheMode, lastCode, warm,
                 hist, redis>>

AnalyticsStep(p, in) ==
  \/ Analytics_shortCodeExists(p, in)
  \/ Analytics_getFromCache(p)
  \/ Analytics_switch(p)
  \/ Analytics_cacheData(p)

\* RedisClient.clear(`analytics:${shortCode}:*`): the cache afterwards.
CacheClear(shortCode) ==
  IF cacheMode = "up"
  THEN {e \in cache : ~(e.key.ns = "analytics" /\ e.key.id = shortCode)}
  ELSE cache

\* AnalyticsService.deleteAnalytics, into deleteForUrl: deleteMany({ shortCode }).
DeleteAnalytics_deleteMany(p, in) ==
  /\ call[p].pc = "idle"
  /\ \E shortCode \in in.acodes :
       LET c == [Fresh EXCEPT !.op = "deleteAnalytics", !.code = shortCode]
           deletedCount == Len(EventsOf(shortCode))
       IN  IF ~in.analytics THEN Returns(p, c, <<"false">>, "none") /\ UNCHANGED clicks
           ELSE IF Rejects THEN Throws(p, c, "StoreError") /\ UNCHANGED clicks
           ELSE /\ clicks' = SelectSeq(clicks, LAMBDA e : e.shortCode # shortCode)
                /\ Continue(p, [c EXCEPT !.pc = "da_reset",
                                         !.res = IF deletedCount > 0 THEN <<"true">>
                                                                     ELSE <<"false">>])
  /\ UNCHANGED <<recording, store, cache, now, urlLength, storeUp, cacheMode, lastCode,
                 warm,
                 hist, redis>>

\* updateOne({ shortCode }, { 'metadata.totalClicks': 0 })
ResetTotalClicks(shortCode) ==
  {IF r.shortCode = shortCode THEN [r EXCEPT !.totalClicks = 0] ELSE r : r \in store}

\* deleteForUrl resets the Link's count and returns whether events were deleted;
\* deleteAnalytics returns that when nothing was.
DeleteAnalytics_updateOne(p) ==
  /\ call[p].pc = "da_reset"
  /\ LET c == call[p]
     IN  IF Rejects THEN Throws(p, c, "StoreError") /\ UNCHANGED store
         ELSE /\ store' = ResetTotalClicks(c.code)
              /\ IF c.res = <<"true">> THEN Continue(p, [c EXCEPT !.pc = "da_clear"])
                                       ELSE Returns(p, c, c.res, "none")
  /\ UNCHANGED <<clicks, recording, cache, now, urlLength, storeUp, cacheMode, lastCode,
                 warm,
                 hist, redis>>

\* Events were deleted: the code's cached analytics are cleared.
DeleteAnalytics_clear(p) ==
  /\ call[p].pc = "da_clear"
  /\ IF Escapes(FALSE)
     THEN Throws(p, call[p], "CacheError") /\ UNCHANGED cache
     ELSE /\ cache' = CacheClear(call[p].code)
          /\ Returns(p, call[p], call[p].res, "cleared")
  /\ UNCHANGED <<clicks, recording, store, now, urlLength, storeUp, cacheMode, lastCode,
                 warm,
                 hist, redis>>

DeleteAnalyticsStep(p, in) ==
  \/ DeleteAnalytics_deleteMany(p, in)
  \/ DeleteAnalytics_updateOne(p)
  \/ DeleteAnalytics_clear(p)

Without(q, i) == SubSeq(q, 1, i - 1) \o SubSeq(q, i + 1, Len(q))

\* A recording in flight reaches analyticsRepository.recordClick, which saves
\* the ClickEvent.
RecordClick_save ==
  /\ \E i \in 1..Len(recording) :
       /\ ~recording[i].saved
       /\ clicks' = Append(clicks, [shortCode |-> recording[i].shortCode,
                                    referrer |-> recording[i].referrer])
       /\ recording' = [recording EXCEPT ![i].saved = TRUE]
  /\ UNCHANGED <<store, cache, now, urlLength, call, storeUp, cacheMode, lastCode, warm,
                 hist, redis>>

\* updateOne({ shortCode }, { $inc: { 'metadata.totalClicks': 1 } })
IncTotalClicks(shortCode) ==
  {IF r.shortCode = shortCode THEN [r EXCEPT !.totalClicks = @ + 1] ELSE r : r \in store}

\* recordClick goes on to count the click on the Link, if there is one.
RecordClick_inc ==
  /\ \E i \in 1..Len(recording) :
       /\ recording[i].saved
       /\ store' = IncTotalClicks(recording[i].shortCode)
       /\ recording' = Without(recording, i)
  /\ UNCHANGED <<clicks, cache, now, urlLength, call, storeUp, cacheMode, lastCode, warm,
                 hist, redis>>

\* A recording in flight fails; both recordClick and _recordAnalytics catch and log.
RecordClick_fail ==
  /\ \E i \in 1..Len(recording) : recording' = Without(recording, i)
  /\ UNCHANGED <<clicks, store, cache, now, urlLength, call, storeUp, cacheMode, lastCode,
                 warm,
                 hist, redis>>

\* The caller takes the result (the controller answers the request).
Respond(p) ==
  /\ call[p].pc = "done"
  /\ call' = [call EXCEPT ![p] = Fresh]
  /\ UNCHANGED <<clicks, recording, store, cache, now, urlLength, storeUp, cacheMode, lastCode, warm,
                 hist, redis>>

---------------------------------------------------------------------------
\* The environment.

\* Time passes; Redis drops the keys whose TTL has run out.
Tick ==
  /\ now < MaxTime
  /\ now' = now + 1
  /\ cache' = {e \in cache : e.exp > now + 1}
  /\ warm' = {w \in warm : w.exp > now + 1}
  /\ UNCHANGED <<clicks, recording, store, urlLength, call, storeUp, cacheMode, lastCode,
                 hist, redis>>

StoreFault ==
  /\ storeUp' = ~storeUp
  /\ UNCHANGED <<clicks, recording, store, cache, now, urlLength, call, cacheMode, lastCode, warm,
                 hist, redis>>

CacheFault ==
  /\ \E m \in {"up", "cmdfail", "connfail"} \ {cacheMode} : cacheMode' = m
  /\ UNCHANGED <<clicks, recording, store, cache, now, urlLength, call, storeUp, lastCode, warm,
                 hist, redis>>

---------------------------------------------------------------------------
\* RedisClient, the wrapper itself: connect, the commands, disconnect, and the
\* events of the clients it created.

\* The clients created and not ended.
Underlying == {k \in 1..Len(redis.state) : redis.state[k] # "ended"}

\* RedisClient.connect as call c runs it: nothing to do with a ready client at
\* hand; otherwise createClient, the handlers, and the await of client.connect().
Connect(p, c, then) ==
  IF redis.isConnected /\ redis.client # 0
  THEN Continue(p, then) /\ UNCHANGED redis
  ELSE /\ Len(redis.state) < MaxClients
       /\ redis' = [redis EXCEPT !.client = Len(redis.state) + 1,
                                 !.state = Append(@, "connecting")]
       /\ Continue(p, [c EXCEPT !.pc = "rc_connect", !.conn = Len(redis.state) + 1])

\* redisClient.connect(), as main calls it.
Redis_connect(p) ==
  /\ call[p].pc = "idle"
  /\ LET c == [Fresh EXCEPT !.op = "connect"]
     IN  Connect(p, c, Done(c, "ok", <<>>, "connected"))
  /\ UNCHANGED <<clicks, recording, store, cache, now, urlLength, storeUp, cacheMode,
                 lastCode, warm, hist>>

\* get, set and delete: if (!this.isConnected) await this.connect(), then the command.
Redis_command(p, in) ==
  /\ call[p].pc = "idle"
  /\ \E op \in {"get", "set", "delete"}, shortCode \in in.codes, value \in in.urls :
       LET c == [Fresh EXCEPT !.op = op, !.code = shortCode, !.url = value]
       IN  IF ~redis.isConnected
           THEN Connect(p, c, [c EXCEPT !.pc = "rc_cmd"])
           ELSE Continue(p, [c EXCEPT !.pc = "rc_cmd"]) /\ UNCHANGED redis
  /\ UNCHANGED <<clicks, recording, store, cache, now, urlLength, storeUp, cacheMode,
                 lastCode, warm, hist>>

\* 'ready' of a client the wrapper created, the current one or not.
Client_ready ==
  /\ \E k \in 1..Len(redis.state) :
       /\ redis.state[k] = "connecting"
       /\ redis' = [redis EXCEPT !.state[k] = "ready", !.isConnected = TRUE]
  /\ UNCHANGED <<clicks, recording, store, cache, now, urlLength, call, storeUp,
                 cacheMode, lastCode, warm, hist>>

\* await this.client.connect() answers, for the client this call created.
Redis_connected(p) ==
  /\ call[p].pc = "rc_connect"
  /\ redis.state[call[p].conn] = "ready"
  /\ IF call[p].op = "connect"
     THEN Returns(p, call[p], <<>>, "connected")
     ELSE Continue(p, [call[p] EXCEPT !.pc = "rc_cmd"])
  /\ UNCHANGED <<clicks, recording, store, cache, now, urlLength, storeUp, cacheMode,
                 lastCode, warm, hist, redis>>

\* The command on this.client; a client not yet ready holds it back, and what a
\* missing or ended client throws is caught and answered with null or false.
Redis_reply(p) ==
  /\ call[p].pc = "rc_cmd"
  /\ LET c == call[p]
         key == UrlKey(c.code)
     IN  IF redis.client = 0 \/ redis.state[redis.client] = "ended"
         THEN Returns(p, c, <<>>, "error") /\ UNCHANGED cache
         ELSE /\ redis.state[redis.client] = "ready"
              /\ cache' = CASE c.op = "set" -> CacheSet(key, c.url, CacheTtl)
                             [] c.op = "delete" -> CacheDelete(key)
                             [] OTHER -> cache
              /\ Returns(p, c, IF c.op = "get" THEN CacheGet(key) ELSE <<>>, "replied")
  /\ UNCHANGED <<clicks, recording, store, now, urlLength, storeUp, cacheMode, lastCode,
                 warm, hist, redis>>

\* redisClient.disconnect(): nothing without a ready client; else await quit().
Redis_disconnect(p) ==
  /\ call[p].pc = "idle"
  /\ LET c == [Fresh EXCEPT !.op = "disconnect"]
     IN  IF ~redis.isConnected \/ redis.client = 0
         THEN Returns(p, c, <<>>, "none")
         ELSE Continue(p, [c EXCEPT !.pc = "rc_quit", !.conn = redis.client])
  /\ UNCHANGED <<clicks, recording, store, cache, now, urlLength, storeUp, cacheMode,
                 lastCode, warm, hist, redis>>

\* quit() answers: the client has ended, and the wrapper lets go of this.client.
Redis_quit(p) ==
  /\ call[p].pc = "rc_quit"
  /\ redis' = [redis EXCEPT !.state[call[p].conn] = "ended", !.isConnected = FALSE,
                            !.client = 0]
  /\ Returns(p, call[p], <<>>, "quit")
  /\ UNCHANGED <<clicks, recording, store, cache, now, urlLength, storeUp, cacheMode,
                 lastCode, warm, hist>>

WrapperStep(p, in) ==
  \/ Redis_connect(p)
  \/ Redis_command(p, in)
  \/ Redis_connected(p)
  \/ Redis_reply(p)
  \/ Redis_disconnect(p)
  \/ Redis_quit(p)
  \/ Respond(p)

---------------------------------------------------------------------------
CreateStep(p, in) ==
  \/ Create_findByOriginalUrl(p, in)
  \/ Create_customAliasExists(p)
  \/ Create_generateUniqueShortCode(p)
  \/ Create_create(p, in)
  \/ Create_cacheUrl(p)

CallerStep(p, in) ==
  \/ CreateStep(p, in)
  \/ Resolve_getFromCache(p, in)
  \/ Resolve_findByShortCode(p)
  \/ Resolve_cacheUrl(p, in)
  \/ updateUrl(p, in)
  \/ deactivateUrl(p, in) /\ UNCHANGED hist
  \/ activateUrl(p, in) /\ UNCHANGED hist
  \/ deleteUrl(p, in)
  \/ invalidate(p)
  \/ Respond(p)

\* Concurrent callers; the store and the cache answer.
Next == \E p \in Procs : CallerStep(p, RaceInputs)

Spec == Init /\ [][Next]_vars

\* One caller that only creates Links.
CreateNext == CreateStep(1, CreateInputs) \/ Respond(1)

CreateSpec == Init /\ [][CreateNext]_vars

\* One caller, whose calls therefore never overlap, and the clock.
SeqNext == CallerStep(1, SeqInputs) \/ Tick

SeqSpec == Init /\ [][SeqNext]_vars

\* One caller, the clock, and a store and a cache that come and go.
FaultNext ==
  \/ CallerStep(1, FaultInputs)
  \/ AnalyticsStep(1, FaultInputs)
  \/ StoreFault
  \/ CacheFault

FaultSpec == Init /\ [][FaultNext]_vars

---------------------------------------------------------------------------
\* One caller of a ResolveUrl that records clicks, the recordings, and the clock.
ClickNext ==
  \/ CallerStep(1, ClickInputs)
  \/ AnalyticsStep(1, ClickInputs)
  \/ RecordClick_save
  \/ RecordClick_inc
  \/ RecordClick_fail
  \/ Tick

ClickSpec == Init /\ [][ClickNext]_vars

---------------------------------------------------------------------------
\* One caller that asks for analytics in several views and with several
\* options, over an event log that already holds SeedClicks events of one code.
AnalyticsInit ==
  InitWith(Rep([shortCode |-> Rep("a", DefaultUrlLength), referrer |-> Null], SeedClicks))

AnalyticsNext ==
  \/ CreateStep(1, AnalyticsInputs)
  \/ Resolve_getFromCache(1, AnalyticsInputs)
  \/ Resolve_findByShortCode(1)
  \/ Resolve_cacheUrl(1, AnalyticsInputs)
  \/ deactivateUrl(1, AnalyticsInputs) /\ UNCHANGED hist
  \/ deleteUrl(1, AnalyticsInputs)
  \/ invalidate(1)
  \/ Respond(1)
  \/ AnalyticsStep(1, AnalyticsInputs)
  \/ RecordClick_save
  \/ RecordClick_inc
  \/ Tick

AnalyticsSpec == AnalyticsInit /\ [][AnalyticsNext]_vars

---------------------------------------------------------------------------
\* Concurrent callers that create, resolve and delete around one alias.
ReuseStep(p) ==
  \/ CreateStep(p, ReuseInputs)
  \/ Resolve_getFromCache(p, ReuseInputs)
  \/ Resolve_findByShortCode(p)
  \/ Resolve_cacheUrl(p, ReuseInputs)
  \/ deleteUrl(p, ReuseInputs)
  \/ invalidate(p)
  \/ Respond(p)

ReuseNext == \E p \in Procs : ReuseStep(p)

ReuseSpec == Init /\ [][ReuseNext]_vars

---------------------------------------------------------------------------
\* One caller that resolves with several referrers and asks for the referrers
\* view, over an event log that already holds up to MaxSeed events.
SeedEvents ==
  {[shortCode |-> Rep("a", DefaultUrlLength), referrer |-> r] : r \in {Null, Str(""), Str("g")}}

ReferrerInit ==
  \E n \in 0..MaxSeed : \E seed \in [1..n -> SeedEvents] : InitWith(seed)

ReferrerNext ==
  \/ CreateStep(1, ReferrerInputs)
  \/ Resolve_getFromCache(1, ReferrerInputs)
  \/ Resolve_findByShortCode(1)
  \/ Resolve_cacheUrl(1, ReferrerInputs)
  \/ Respond(1)
  \/ AnalyticsStep(1, ReferrerInputs)
  \/ RecordClick_save
  \/ RecordClick_inc
  \/ Tick

ReferrerSpec == ReferrerInit /\ [][ReferrerNext]_vars

\* One caller that creates, resolves, deactivates and activates, its calls never
\* overlapping, and the clock; the history follows the deactivations.
ToggleNext ==
  \/ CreateStep(1, ToggleInputs)
  \/ Resolve_getFromCache(1, ToggleInputs)
  \/ Resolve_findByShortCode(1)
  \/ Resolve_cacheUrl(1, ToggleInputs)
  \/ Deactivated(1, ToggleInputs)
  \/ Activated(1, ToggleInputs)
  \/ invalidate(1)
  \/ Respond(1)
  \/ Tick

ToggleSpec == Init /\ [][ToggleNext]_vars

\* Concurrent callers of the wrapper, and the clients' events.
WrapperNext ==
  \/ \E p \in Procs : WrapperStep(p, WrapperInputs)
  \/ Client_ready

WrapperSpec == Init /\ [][WrapperNext]_vars

\* One caller that creates, resolves, reads and deletes analytics, while the
\* recordings its resolves started run on: every save and every count succeeds.
CountNext ==
  \/ CreateStep(1, CountInputs)
  \/ Resolve_getFromCache(1, CountInputs)
  \/ Resolve_findByShortCode(1)
  \/ Resolve_cacheUrl(1, CountInputs)
  \/ Respond(1)
  \/ AnalyticsStep(1, CountInputs)
  \/ DeleteAnalyticsStep(1, CountInputs)
  \/ RecordClick_save
  \/ RecordClick_inc
  \/ Tick

CountSpec == Init /\ [][CountNext]_vars

---------------------------------------------------------------------------
\* Properties.

\* p's call finishes in this step.
Finishes(p, op) ==
  /\ call[p].pc # "done"
  /\ call'[p].pc = "done"
  /\ call'[p].op = op

LinksOfCode(S, shortCode) == {r \in S : r.shortCode = shortCode}

LinksOfUrl(S, originalUrl) == {r \in S : r.originalUrl = originalUrl}

InThePast(r) == \E t \in r.expiresAt : t < now

\* C1: in every reachable state, under every interleaving of createLink,
\* updateUrl, deactivateUrl, activateUrl and deleteUrl, no two Links of the
\* store have the same code, generated or alias.
C1_UniqueCodes ==
  \A r1 \in store, r2 \in store : r1.shortCode = r2.shortCode => r1 = r2

C1_Witness ==
  /\ \E r \in store : r.customAlias # <<>>
  /\ \E r \in store : r.customAlias = <<>>

\* C2: whatever the interleaving of concurrent createLink calls for one
\* normalized URL, the store holds at most one Link for that URL.
C2_OneLinkPerUrl ==
  \A r1 \in store, r2 \in store : r1.originalUrl = r2.originalUrl => r1 = r2

\* C3: a createLink that follows a createLink of the same normalized URL
\* returns the code the first one returned, and the store then holds exactly
\* one Link for that URL.
C3_SameCodeTwice ==
  [][\A p \in Procs : \A h \in lastCode :
       (Finishes(p, "create") /\ call'[p].url = h.url) =>
          /\ call'[p].out = "ok"
          /\ call'[p].res = h.code
          /\ Cardinality(LinksOfUrl(store', h.url)) = 1]_vars

C3_Witness ==
  \E p \in Procs : \E h \in lastCode :
    /\ call[p].pc = "done" /\ call[p].op = "create" /\ call[p].via = "existing"
    /\ call[p].url = h.url /\ call[p].res = h.code

\* C4: on a cache miss resolve fails with NotFound when the store has no Link
\* for the code, with Deactivated when the Link is inactive, with Expired when
\* it is active and its expiresAt is in the past, and returns the Link's
\* originalUrl in the remaining case only.
C4_MissOutcomes ==
  [][\A p \in Procs :
       /\ (call[p].pc = "rs_store" /\ call'[p] # call[p]) =>
            LET found == LinksOfCode(store, call[p].code)
            IN  /\ found = {} => call'[p].pc = "done" /\ call'[p].out = "NotFound"
                /\ \A r \in found :
                     /\ ~r.isActive => call'[p].pc = "done" /\ call'[p].out = "Deactivated"
                     /\ (r.isActive /\ InThePast(r)) =>
                          call'[p].pc = "done" /\ call'[p].out = "Expired"
                     /\ (r.isActive /\ ~InThePast(r)) =>
                          call'[p].pc = "rs_set" /\ call'[p].res = r.originalUrl
       /\ (call[p].pc = "rs_set" /\ call'[p] # call[p]) =>
            /\ call'[p].pc = "done" /\ call'[p].out = "ok"
            /\ call'[p].res = call[p].res]_vars

C4_Witness ==
  \E p \in Procs :
    /\ call[p].pc = "done" /\ call[p].op = "resolve" /\ call[p].out = "Expired"
    /\ \E r \in LinksOfCode(store, call[p].code) : r.isActive /\ InThePast(r)

\* C5: with no concurrent operations, once a Link that createLink cached and a
\* resolve served has been deactivated (deactivateUrl or updateUrl with
\* isActive=false has returned), the next resolve of its code fails with
\* Deactivated.
C5_DeactivatedAfterOff ==
  [][\A p \in Procs :
       (Finishes(p, "resolve") /\ \E r \in LinksOfCode(store, call'[p].code) : ~r.isActive)
          => call'[p].out = "Deactivated"]_vars

C5_Witness ==
  \E p \in Procs :
    /\ call[p].pc = "done" /\ call[p].op = "resolve" /\ call[p].out = "Deactivated"
    /\ \E h \in lastCode : h.code = call[p].code

\* C6: once a Link's expiresAt has passed, every resolve of its code fails
\* with Expired, also when createLink or an earlier resolve cached the code
\* before the expiry and nothing updated or deleted it since.
C6_ExpiredAlwaysFails ==
  [][\A p \in Procs :
       (Finishes(p, "resolve")
          /\ \E r \in LinksOfCode(store, call'[p].code) : r.isActive /\ InThePast(r))
          => call'[p].out = "Expired"]_vars

\* C7: after a resolve that missed the cache and succeeded, the next resolve
\* of the code within the TTL, with no update or delete in between, returns
\* the same originalUrl and reads nothing from the store.
C7_WarmAfterMiss ==
  [][\A p \in Procs : \A w \in warm :
       (call[p].pc = "idle" /\ call'[p].op = "resolve" /\ call'[p].code = w.code
          /\ now < w.exp) =>
          /\ call'[p].pc = "done" /\ call'[p].out = "ok"
          /\ call'[p].res = w.url
          /\ ~call'[p].rd]_vars

C7_Witness ==
  \E p \in Procs : \E w \in warm :
    /\ call[p].pc = "done" /\ call[p].op = "resolve" /\ call[p].via = "hit"
    /\ call[p].code = w.code /\ call[p].res = w.url /\ now < w.exp

\* C8: on a cache hit resolve returns the cached originalUrl and reads nothing
\* from the store, so it succeeds also while the store is unreachable.
C8_HitSkipsStore ==
  [][\A p \in Procs : \A e \in cache :
       (call[p].pc = "idle" /\ call'[p].op = "resolve"
          /\ e.key = [ns |-> "url", id |-> call'[p].code]
          /\ e.exp > now /\ cacheMode = "up") =>
          /\ call'[p].pc = "done" /\ call'[p].out = "ok"
          /\ call'[p].res = e.value
          /\ ~call'[p].rd]_vars

C8_Witness ==
  \E p \in Procs :
    /\ call[p].pc = "done" /\ call[p].op = "resolve" /\ call[p].out = "ok"
    /\ call[p].via = "hit" /\ ~call[p].rd
    /\ ~storeUp

\* C9: updateUrl, deactivateUrl, activateUrl and deleteUrl, having changed or
\* removed a Link, delete the cache entry under the key createLink and resolve
\* write before they return; when the store reports no such Link they leave
\* the cache as it is.
C9_InvalidateOnChange ==
  [][\A p \in Procs :
       /\ (call[p].pc = "inval" /\ call'[p].pc = "done") =>
            /\ \A e \in cache' : e.key # [ns |-> "url", id |-> call'[p].code]
            /\ \A e \in cache' : e \in cache
       /\ (call[p].pc \in {"cr_cache", "rs_set"} /\ call'[p].pc = "done") =>
            \A e \in cache' \ cache : e.key = [ns |-> "url", id |-> call'[p].code]
       /\ (call[p].pc = "idle" /\ call'[p].pc = "done" /\ call'[p].via = "absent") =>
            /\ store' = store
            /\ cache' = cache]_vars

C9_Witness ==
  /\ \E p \in Procs :
       /\ call[p].pc = "done" /\ call[p].via \in {"off", "patched", "deleted"}
       /\ \A e \in cache : e.key.id # call[p].code
  /\ cache # {}

\* C10: createLink of a URL that has no Link, with a customAlias equal to an
\* existing Link's customAlias, fails with AliasTaken and writes neither the
\* store nor the cache.
C10_AliasTaken ==
  [][\A p \in Procs :
       /\ (call[p].pc = "idle" /\ call'[p].pc = "cr_alias") =>
            store' = store /\ cache' = cache
       /\ (call[p].pc = "cr_alias" /\ call'[p] # call[p]
             /\ \E r \in store : r.customAlias = call[p].alias) =>
            /\ call'[p].pc = "done" /\ call'[p].out = "AliasTaken"
            /\ store' = store
            /\ cache' = cache]_vars

C10_Witness ==
  \E p \in Procs :
    /\ call[p].pc = "done" /\ call[p].op = "create" /\ call[p].out = "AliasTaken"
    /\ LinksOfUrl(store, call[p].url) = {}

\* C11: when a Link exists for the normalized URL, createLink returns it as it
\* is and writes neither the store nor the cache, whatever customAlias (also a
\* malformed or a taken one) or expiresAt the call carries.
C11_ExistingUntouched ==
  [][\A p \in Procs :
       (call[p].pc = "idle" /\ call'[p].op = "create"
          /\ LinksOfUrl(store, call'[p].url) # {}) =>
          /\ call'[p].pc = "done" /\ call'[p].out = "ok"
          /\ \E r \in LinksOfUrl(store, call'[p].url) : call'[p].res = r.shortCode
          /\ store' = store
          /\ cache' = cache]_vars

C11_Witness ==
  \E p \in Procs :
    /\ call[p].pc = "done" /\ call[p].op = "create" /\ call[p].via = "existing"
    /\ \E r \in store : r.originalUrl # call[p].url /\ r.customAlias = call[p].alias
    /\ \E r \in LinksOfUrl(store, call[p].url) : r.shortCode = call[p].res /\ ~r.isActive

\* C12: when two concurrent createLink calls for one URL both miss the lookup
\* and the store's uniqueness constraint rejects the later persist, the loser
\* queries the URL again and returns the winner's Link; it does not fail.
C12_LoserReturnsWinner ==
  [][\A p \in Procs :
       (call[p].pc = "cr_persist" /\ call'[p] # call[p]
          /\ LinksOfCode(store, call[p].code) # {}
          /\ LinksOfUrl(store, call[p].url) # {}) =>
          ~(call'[p].pc = "done" /\ call'[p].out # "ok")]_vars

\* C13: when the store rejects create with a uniqueness conflict on the code,
\* createLink selects a code and persists once more; only a second conflict
\* fails the call, with CreationConflict, and no third persist is made.
C13_RetryOnce ==
  [][\A p \in Procs :
       (Finishes(p, "create") /\ call[p].pc = "cr_persist"
          /\ LinksOfCode(store, call[p].code) # {}) =>
          call'[p].out = "CreationConflict"]_vars

\* C14: createLink of a new URL with an expiresAt that is not strictly after
\* the current time fails with ExpirationInPast and persists no Link.
C14_NoPastExpiry ==
  [][\A p \in Procs :
       (call[p].pc = "cr_persist" /\ call'[p] # call[p]) =>
          \A r \in store' \ store : \A t \in r.expiresAt : t > now]_vars

\* C15: createLink of a URL that does not parse as an absolute http(s) URL
\* fails with InvalidUrl before the store lookup and the alias check, so that
\* with an alias that is taken the error is InvalidUrl, not AliasTaken.
C15_InvalidUrlFirst ==
  [][\A p \in Procs :
       (Finishes(p, "create") /\ ~UrlParses(call'[p].url)
          /\ \E r \in store : r.customAlias = call'[p].alias) =>
          call'[p].out = "InvalidUrl"]_vars

\* The cache gives nothing for the key: it fails, or it holds no live entry.
Unserved(ns, shortCode) ==
  \/ cacheMode # "up"
  \/ \A e \in cache : (e.key.ns = ns /\ e.key.id = shortCode) => e.exp <= now

\* C16: a failing or unreachable cache never fails createLink, resolve or
\* getAnalytics: each goes on as it does with an empty cache and returns what
\* the store gives, and createLink has persisted its Link.
C16_CacheFailOpen ==
  [][\A p \in Procs :
       /\ (call[p].pc = "idle" /\ call'[p].op = "resolve" /\ call'[p].code # <<>>
             /\ Unserved("url", call'[p].code)) =>
            call'[p].pc = "rs_store"
       /\ (call[p].pc = "an_cache" /\ call'[p] # call[p]
             /\ Unserved("analytics", call[p].code)) =>
            call'[p].pc = "an_store"
       /\ (call[p].pc \in {"rs_set", "an_set"} /\ call'[p] # call[p]) =>
            /\ call'[p].pc = "done" /\ call'[p].out = "ok"
            /\ call'[p].res = call[p].res
       /\ (call[p].pc = "cr_cache" /\ call'[p] # call[p]) =>
            /\ call'[p].pc = "done" /\ call'[p].out = "ok"
            /\ call'[p].res = call[p].code
            /\ \E r \in LinksOfCode(store', call[p].code) : r.originalUrl = call[p].url]_vars

C16_Witness ==
  \E p \in Procs :
    /\ cacheMode = "connfail"
    /\ call[p].pc = "done" /\ call[p].op \in {"resolve", "analytics"}
    /\ call[p].out = "ok" /\ call[p].via = "miss"
    /\ \A e \in cache : e.key.id # call[p].code

\* C17: a store error during createLink, during resolve on a cache miss or
\* during getAnalytics on a cache miss reaches the caller as an error: the
\* call returns no URL and no aggregate, and writes nothing to the cache.
C17_StoreErrorsPropagate ==
  [][\A p \in Procs :
       /\ (~storeUp /\ call'[p] # call[p]
             /\ \/ call[p].pc \in {"cr_alias", "cr_gen", "cr_persist", "rs_store", "an_store"}
                \/ call[p].pc = "idle" /\ call'[p].op \in {"create", "analytics"}) =>
            /\ call'[p].pc = "done" /\ call'[p].out = "StoreError"
            /\ call'[p].res = <<>>
            /\ cache' = cache
            /\ store' = store
       /\ (cache' # cache /\ call'[p] # call[p]
             /\ call'[p].op \in {"create", "resolve", "analytics"}) =>
            call'[p].pc = "done" /\ call'[p].out = "ok"]_vars

C17_Witness ==
  \E p \in Procs :
    /\ ~storeUp
    /\ call[p].pc = "done" /\ call[p].op \in {"resolve", "analytics"}
    /\ call[p].out = "StoreError" /\ call[p].rd
    /\ \A e \in cache : e.key.id # call[p].code

\* C18: createLink of a new URL writes the store first and the cache second,
\* and writes no cache entry for a Link whose store create failed.
C18_StoreBeforeCache ==
  [][\A p \in Procs :
       /\ (call[p].pc = "cr_persist" /\ call'[p] # call[p]) =>
            /\ cache' = cache
            /\ \/ call'[p].pc = "done" /\ call'[p].out # "ok" /\ store' = store
               \/ /\ call'[p].pc = "cr_cache"
                  /\ \E r \in store' \ store :
                       r.shortCode = call[p].code /\ r.originalUrl = call[p].url
       /\ (call[p].pc = "cr_cache" /\ call'[p] # call[p]) =>
            /\ store' = store
            /\ \E r \in LinksOfCode(store, call[p].code) : r.originalUrl = call[p].url
            /\ \A e \in cache' \ cache :
                 e.key = [ns |-> "url", id |-> call[p].code] /\ e.value = call[p].url
       /\ (call'[p] # call[p] /\ call'[p].op = "create" /\ cache' # cache) =>
            call[p].pc = "cr_cache"]_vars

C18_Witness ==
  \E p \in Procs :
    /\ call[p].pc = "done" /\ call[p].op = "create" /\ call[p].out = "StoreError"
    /\ call[p].code # <<>>
    /\ LinksOfCode(store, call[p].code) = {}
    /\ \A e \in cache : e.key.id # call[p].code

Occurs(q, shortCode) == \E i \in 1..Len(q) : q[i].shortCode = shortCode

\* C19: every successful resolve made through the service with request
\* metadata leads to one ClickEvent for its code: when the resolve has
\* returned, the recording is in flight or the ClickEvent is in the collection.
C19_ClickFollowsResolve ==
  \A p \in Procs :
    (call[p].pc = "done" /\ call[p].op = "resolve" /\ call[p].out = "ok" /\ call[p].meta)
      => Occurs(recording, call[p].code) \/ Occurs(clicks, call[p].code)

\* C20: the click recording that resolve starts never changes what resolve
\* returns: resolve returns the originalUrl in the step that starts the
\* recording, without waiting for it, and a recording that succeeds, fails or
\* stays in flight leaves the call and its result as they are.
C20_RecordingApart ==
  [][/\ \A p \in Procs :
          /\ (call'[p] # call[p] /\ Len(recording') > Len(recording)) =>
               /\ Finishes(p, "resolve")
               /\ call'[p].out = "ok"
          /\ (call[p].pc = "rs_set" /\ call'[p] # call[p]) =>
               /\ call'[p].pc = "done" /\ call'[p].out = "ok"
               /\ call'[p].res = call[p].res
          /\ (call[p].pc = "idle" /\ Finishes(p, "resolve") /\ call'[p].out = "ok") =>
               \E e \in cache :
                 /\ e.key = [ns |-> "url", id |-> call'[p].code]
                 /\ call'[p].res = e.value
     /\ (Len(recording') < Len(recording)) => call' = call]_vars

C20_Witness ==
  \E p \in Procs :
    /\ call[p].pc = "done" /\ call[p].op = "resolve" /\ call[p].out = "ok"
    /\ call[p].meta
    /\ Occurs(recording, call[p].code)
    /\ ~Occurs(clicks, call[p].code)

\* C21: when the first five draws of one generator call, made at length 7, all
\* collide, the sixth draw of that call is made at length 8.
C21_SixthDrawLonger ==
  [][\A p \in Procs :
       (/\ call[p].pc = "cr_gen"
        /\ call[p].draws = maxAttempts
        /\ Len(call[p].drawn) = DefaultUrlLength
        /\ call'[p].draws = call[p].draws + 1)
       => Len(call'[p].drawn) = DefaultUrlLength + 1]_vars

C21_Witness ==
  \E p \in Procs :
    /\ call[p].draws = maxAttempts + 1
    /\ Len(call[p].drawn) = DefaultUrlLength + 1

\* C22: a draw that turns out to be free leaves the target length as it was.
C22_GrowsOnlyOnCollision ==
  [][\A p \in Procs :
       (/\ call[p].pc = "cr_gen"
        /\ call'[p].draws = call[p].draws + 1
        /\ ~shortCodeExists(call'[p].drawn))
       => urlLength' = urlLength]_vars
\* C23: on a cache miss, the resolve of an active Link whose expiresAt is the
\* current instant fails with Expired.
C23_ExpiryInclusive ==
  [][\A p \in Procs :
       (/\ call[p].pc = "rs_store"
        /\ call'[p] # call[p]
        /\ \E r \in LinksOfCode(store, call[p].code) : r.isActive /\ r.expiresAt = {now})
       => call'[p].out = "Expired"]_vars
C26_NormalizeIdempotent ==
  \A p \in Procs :
    call[p].op = "create" => NormalizeUrl(call[p].url) = call[p].url
\* C27: getAnalytics fails with NotFound exactly when no Link exists for the
\* code, whatever the cache holds; for a Link that exists, deactivated or
\* expired ones included, a call for a known view succeeds.
C27_NotFoundIffNoLink ==
  [][\A p \in Procs :
       Finishes(p, "analytics") =>
         IF LinksOfCode(store, call'[p].code) = {}
         THEN call'[p].out = "NotFound"
         ELSE \/ call'[p].out = "ok"
              \/ call'[p].out = "UnknownView" /\ call'[p].key.view \notin {"summary", "clicks"}]_vars

C27_Witness ==
  \E p \in Procs :
    /\ call[p].pc = "done" /\ call[p].op = "analytics" /\ call[p].out = "NotFound"
    /\ \E e \in cache :
         e.key.ns = "analytics" /\ e.key.id = call[p].code /\ e.exp > now
\* C28: a getAnalytics call computes the cache key that any call with the same
\* code and view computes whose options are equal to its own after default
\* filling (absent limit = 100, skip = 0, interval = 'day', from and to = null),
\* in whatever order the properties are given.
C28_SameKey ==
  \A p \in Procs :
    (call[p].op = "analytics" /\ call[p].key # <<>>) =>
      LET Given(o, name, default) ==
            IF Prop(o, name).t = "undefined" THEN default ELSE Prop(o, name)
          Filled(o) ==
            [from |-> Given(o, "from", Null), to |-> Given(o, "to", Null),
             limit |-> Given(o, "limit", Num(100)), skip |-> Given(o, "skip", Num(0)),
             interval |-> Given(o, "interval", Str("day"))]
      IN  \A other \in AnalyticsInputs.options :
            Filled(other) = Filled(call[p].options) =>
              AnalyticsKey(call[p].code, call[p].key.view, QueryOptions(other)) = call[p].key

C28_Witness ==
  \E p \in Procs :
    /\ call[p].pc = "done" /\ call[p].op = "analytics" /\ call[p].via = "hit"
    /\ Len(call[p].options) = 4
    /\ Prop(call[p].options, "from").t = "undefined"
    /\ call[p].key = AnalyticsKey(call[p].code, call[p].key.view, QueryOptions(<<>>))
\* C29: when the cache holds a live entry under the call's key, getAnalytics
\* returns the entry's value in that step, having read the record store for
\* the existence check only and leaving the store as it was.
C29_HitReturnsMemo ==
  [][\A p \in Procs : \A e \in cache :
       (/\ call[p].pc = "an_cache" /\ call'[p] # call[p]
        /\ e.key = call[p].key /\ e.exp > now /\ cacheMode = "up")
       => /\ call'[p].pc = "done" /\ call'[p].out = "ok"
          /\ call'[p].res = e.value
          /\ ~call'[p].rd
          /\ store' = store /\ clicks' = clicks]_vars

C29_Witness ==
  \E p \in Procs :
    /\ call[p].pc = "done" /\ call[p].op = "analytics" /\ call[p].via = "hit"
    /\ ~call[p].rd
    /\ call[p].key.view = "summary"
    /\ call[p].res # Aggregate(call[p].code)
\* C30: the step of getAnalytics that follows the query leaves the cache as it
\* was when the view is 'clicks' and the result holds more than 100 events;
\* for every other view, and for click lists of at most 100 events, it stores
\* the result under the call's key and changes no other entry.
C30_LargeClicksUncached ==
  [][\A p \in Procs :
       (call[p].pc = "an_set" /\ call'[p] # call[p]) =>
         /\ call'[p].out = "ok" /\ call'[p].res = call[p].res
         /\ IF call[p].key.view = "clicks" /\ Len(call[p].res) - 1 > 100
            THEN cache' = cache
            ELSE /\ \E e \in cache' :
                      e.key = call[p].key /\ e.value = call[p].res /\ e.exp > now
                 /\ \A e \in cache' : e.key # call[p].key => e \in cache
                 /\ \A e \in cache : e.key # call[p].key => e \in cache']_vars

C30_Witness ==
  \E p \in Procs :
    /\ call[p].pc = "done" /\ call[p].op = "analytics" /\ call[p].via = "miss"
    /\ call[p].key.view = "clicks"
    /\ Len(call[p].res) - 1 = LargeDataset + 1
    /\ \A e \in cache : e.key # call[p].key
    /\ \E e \in cache :
         /\ e.key.ns = "analytics" /\ e.key.view = "clicks"
         /\ Len(e.value) - 1 = LargeDataset
\* C31: the referrers view returns one entry per distinct referrer, events
\* without a referrer (null or the empty string) taken together as
\* 'Direct/None', each with its count, sorted by count descending.
C31_ReferrersGrouped ==
  [][\A p \in Procs :
       (call[p].pc = "an_store" /\ call'[p].pc = "an_set" /\ call[p].key.view = "referrers") =>
         LET stats == Tail(call'[p].res)
             events == EventsOf(call[p].code)
             Label(e) == IF e.referrer.t = "null" \/ e.referrer.s = ""
                         THEN "Direct/None" ELSE e.referrer.s
             labels == {Label(events[i]) : i \in 1..Len(events)}
         IN  /\ \A i, j \in 1..Len(stats) : i # j => stats[i].referrer # stats[j].referrer
             /\ {stats[i].referrer : i \in 1..Len(stats)} = labels
             /\ \A i \in 1..Len(stats) :
                  stats[i].count
                    = Cardinality({k \in 1..Len(events) : Label(events[k]) = stats[i].referrer})
             /\ \A i, j \in 1..Len(stats) : i < j => stats[i].count >= stats[j].count]_vars
\* C32: once the Link of a code is deactivated or deleted and the call that did
\* it has returned, a resolve of the code that starts then fails with
\* Deactivated or NotFound.
C32_NoResolveAfterOff ==
  [][\A p \in Procs :
       (/\ call[p].pc = "idle" /\ Finishes(p, "resolve") /\ call'[p].code # <<>>
        /\ \A r \in LinksOfCode(store, call'[p].code) : ~r.isActive
        /\ \A q \in Procs : ~(call[q].pc = "inval" /\ call[q].code = call'[p].code))
       => call'[p].out \in {"Deactivated", "NotFound"}]_vars
\* C33: a live cache entry for a code whose Link is in the store holds that
\* Link's originalUrl.
C33_CacheAgrees ==
  \A e \in cache :
    (e.key.ns = "url" /\ e.exp > now) =>
      \A r \in LinksOfCode(store, e.key.id) : e.value = r.originalUrl
\* C34: createLink of a parseable URL that has no Link, with a well-formed
\* customAlias equal to the generated code of an existing Link, fails at the
\* alias existence check with AliasTaken and writes neither store nor cache.
C34_AliasEqualsCode ==
  [][\A p \in Procs :
       (/\ call[p].pc = "cr_alias" /\ call'[p] # call[p]
        /\ UrlParses(call[p].url)
        /\ \E r \in store : r.shortCode = call[p].alias /\ r.customAlias = <<>>)
       => /\ call'[p].pc = "done" /\ call'[p].out = "AliasTaken"
          /\ store' = store
          /\ cache' = cache]_vars
\* C35: no step of a resolve that fails with NotFound, Deactivated or Expired
\* writes the cache or starts a click recording: neither the cache lookup that
\* misses nor the store read that fails the call.
C35_FailedResolveWritesNothing ==
  [][\A p \in Procs :
       (/\ call'[p] # call[p] /\ call'[p].op = "resolve"
        /\ \/ call'[p].pc = "rs_store"
           \/ call'[p].pc = "done" /\ call'[p].out \in {"NotFound", "Deactivated", "Expired"})
       => /\ cache' = cache
          /\ recording' = recording
          /\ clicks' = clicks]_vars

C35_Witness ==
  \E p \in Procs :
    /\ call[p].pc = "done" /\ call[p].op = "resolve" /\ call[p].out = "Expired"
    /\ call[p].meta
    /\ recording = <<>> /\ clicks = <<>>
    /\ \A e \in cache : e.key.id # call[p].code \/ e.exp <= now
\* C36: whenever no click recording and no analytics deletion is in progress,
\* every Link's totalClicks equals the number of stored ClickEvents of its code.
C36_TotalClicksCounts ==
  (/\ recording = <<>>
   /\ \A p \in Procs : call[p].op = "deleteAnalytics" => call[p].pc = "done")
  => \A r \in store : r.totalClicks = Len(EventsOf(r.shortCode))

\* C37: once activateUrl has followed deactivateUrl for a code, with calls that
\* do not overlap, the Link is the one deactivateUrl found (code, originalUrl and
\* expiresAt as before) and is active, and a resolve of the code that finishes
\* while the Link is unexpired returns its originalUrl.
C37_Reactivated ==
  [][\A h \in hist' :
       h.stage = "on" =>
         /\ LinksOfCode(store', h.code) = {[h.before EXCEPT !.isActive = TRUE]}
         /\ \A p \in Procs :
              (Finishes(p, "resolve") /\ call'[p].code = h.code /\ ~IsExpired(h.before))
              => call'[p].out = "ok" /\ call'[p].res = h.before.originalUrl]_vars

C37_Witness ==
  \E p \in Procs : \E h \in hist :
    /\ h.stage = "on" /\ h.before.isActive /\ h.before.expiresAt # {}
    /\ call[p].pc = "done" /\ call[p].op = "resolve" /\ call[p].code = h.code
    /\ call[p].out = "ok" /\ call[p].via = "miss"
    /\ call[p].res = h.before.originalUrl

\* C38: when the one Link of a normalized URL is deactivated or expired, a
\* createLink for that URL returns that Link in its first step and leaves the
\* store as it was: the Link is not reactivated, its expiresAt is not changed
\* and no new Link is created.
C38_DeadLinkReturned ==
  [][\A p \in Procs : \A r \in store :
       (/\ call[p].pc = "idle" /\ call'[p].op = "create"
        /\ LinksOfUrl(store, call'[p].url) = {r}
        /\ ~r.isActive \/ InThePast(r))
       => /\ call'[p].pc = "done" /\ call'[p].out = "ok"
          /\ call'[p].res = r.shortCode
          /\ store' = store]_vars

C38_Witness ==
  \E p \in Procs : \E r \in store :
    /\ call[p].pc = "done" /\ call[p].op = "create" /\ call[p].out = "ok"
    /\ LinksOfUrl(store, call[p].url) = {r}
    /\ call[p].res = r.shortCode
    /\ r.isActive /\ InThePast(r)
\* C39: the wrapper never has more than one underlying client that it created
\* and that has not ended, however its callers' cache operations interleave
\* while it is not ready.
C39_OneClient == Cardinality(Underlying) <= 1

====
